---- MODULE Spec2Model ----
(***************************************************************************)
(* A model of jrnl's command line front end (jrnl/jrnl.py): guess_mode,   *)
(* print_tags, encrypt, decrypt, touch_journal, update_config and cli.    *)
(*                                                                         *)
(* Python values are modelled as follows.                                  *)
(*   str            a sequence of one-character strings                    *)
(*   None / a value an optional: << >> is None, << v >> is the value v     *)
(*   --encrypt/--decrypt (default False, const None, or a FILENAME)        *)
(*                  [given |-> BOOLEAN, value |-> optional str]            *)
(*   list           a sequence                                             *)
(***************************************************************************)
EXTENDS Integers, Sequences, FiniteSets, TLC

VARIABLES
    PYCRYPTO,         \* module global: is the Crypto package importable
    disk_config,      \* the configuration file at CONFIG_PATH
    files,            \* the file system: path -> content
    pc,               \* position of the running invocation of cli()
    args,             \* the parsed arguments
    config,           \* cli's local `config`
    original_config,  \* cli's local `original_config`
    journal_name,     \* cli's local `journal_name`
    mode_compose,     \* cli's local `mode_compose`
    mode_export,      \* cli's local `mode_export`
    journal,          \* the Journal object
    stdout,           \* what this invocation printed, in order
    exit_code,        \* how the invocation ended
    trace,            \* the calls this invocation made that touch files, in order
    report,           \* what print_tags computed and printed
    runs,             \* invocations started so far
    files_before,     \* history: the file system when this invocation started
    config_before     \* history: the configuration file when this invocation started

vars == << PYCRYPTO, disk_config, files, pc, args, config, original_config,
           journal_name, mode_compose, mode_export, journal, stdout, exit_code,
           trace, report, runs, files_before, config_before >>

----------------------------------------------------------------------------
(* Bounds *)

MaxRuns == 2         \* invocations of cli() in one behaviour
MaxSetFlags == 2     \* options given at once on the command line of guess_mode
MaxTextLen == 3      \* characters of the text arguments of guess_mode, joined
MaxTagEntries == 3   \* entries of the journal handed to print_tags
MaxEntryTags == 2    \* tag occurrences per entry handed to print_tags

----------------------------------------------------------------------------
(* Strings *)

None == << >>
Some(v) == << v >>

\* Python truthiness of an optional str: None and "" are falsy.
TruthyStr(o) == o # None /\ o[1] # << >>

\* Python truthiness of an optional int: None and 0 are falsy.
TruthyInt(o) == o # None /\ o[1] # 0

Whitespace == {" ", "\n", "\t"}

\* The characters of the model, in code point order.
Alphabet == << "\t", "\n", " ", "@", "a", "d", "f", "g", "p", "q", "w" >>

CharOrd(c) == CHOOSE i \in 1..Len(Alphabet) : Alphabet[i] = c

\* s < t for str, as Python compares them.
RECURSIVE StrLess(_, _)
StrLess(s, t) ==
    IF t = << >> THEN FALSE
    ELSE IF s = << >> THEN TRUE
    ELSE IF Head(s) = Head(t) THEN StrLess(Tail(s), Tail(t))
    ELSE CharOrd(Head(s)) < CharOrd(Head(t))

\* " ".join(text)
RECURSIVE Join(_)
Join(text) ==
    IF text = << >> THEN << >>
    ELSE IF Len(text) = 1 THEN text[1]
    ELSE text[1] \o << " " >> \o Join(Tail(text))

\* s.split(): the maximal runs of non-whitespace characters, in order.
RECURSIVE SplitFrom(_, _)
SplitFrom(s, cur) ==
    IF s = << >> THEN (IF cur = << >> THEN << >> ELSE << cur >>)
    ELSE IF Head(s) \in Whitespace
         THEN (IF cur = << >> THEN << >> ELSE << cur >>) \o SplitFrom(Tail(s), << >>)
         ELSE SplitFrom(Tail(s), Append(cur, Head(s)))

Split(s) == SplitFrom(s, << >>)

RECURSIVE LStrip(_)
LStrip(s) ==
    IF s # << >> /\ Head(s) \in Whitespace THEN LStrip(Tail(s)) ELSE s

RECURSIVE RStrip(_)
RStrip(s) ==
    IF s # << >> /\ s[Len(s)] \in Whitespace
    THEN RStrip(SubSeq(s, 1, Len(s) - 1)) ELSE s

\* s.strip()
Strip(s) == RStrip(LStrip(s))

\* c in s, for a one-character c
CharIn(c, s) == \E i \in 1..Len(s) : s[i] = c

Range(s) == { s[i] : i \in 1..Len(s) }

\* all the str of at most n characters over the set cs
StrsUpTo(cs, n) == UNION { [1..k -> cs] : k \in 0..n }

\* all the lists of at most n elements of S
ListsUpTo(S, n) == UNION { [1..k -> S] : k \in 0..n }

----------------------------------------------------------------------------
(* parse_args: the shape of the parsed arguments and their defaults *)

NotGiven == [given |-> FALSE, value |-> None]
Given(v) == [given |-> TRUE, value |-> v]

DefaultArgs ==
    [ date |-> None, star |-> FALSE, text |-> << >>,
      start_date |-> None, end_date |-> None, strict |-> FALSE,
      limit |-> None, short |-> FALSE,
      tags |-> FALSE, json |-> FALSE, markdown |-> FALSE,
      encrypt |-> NotGiven, decrypt |-> NotGiven, delete_last |-> FALSE ]

----------------------------------------------------------------------------
(* guess_mode *)

\* guess_mode with any() for all() in line 72
guess_mode_any(a, conf) ==
    LET words == Split(Join(a.text)) IN
    IF a.json \/ a.decrypt.given \/ a.encrypt.given \/ a.markdown \/ a.tags
          \/ a.delete_last
    THEN << FALSE, TRUE >>
    ELSE IF TruthyStr(a.start_date) \/ TruthyStr(a.end_date) \/ TruthyInt(a.limit)
              \/ a.strict \/ a.short
    THEN << FALSE, FALSE >>
    ELSE IF ~TruthyStr(a.date) /\ a.text # << >>
              /\ \E i \in 1..Len(words) : CharIn(words[i][1], conf.tagsymbols)
    THEN << FALSE, FALSE >>
    ELSE << TRUE, FALSE >>

\* returns << compose, export >>
guess_mode(a, conf) ==
    LET words == Split(Join(a.text)) IN
    IF a.json \/ a.decrypt.given \/ a.encrypt.given \/ a.markdown \/ a.tags
          \/ a.delete_last
    THEN << FALSE, TRUE >>
    ELSE IF TruthyStr(a.start_date) \/ TruthyStr(a.end_date) \/ TruthyInt(a.limit)
              \/ a.strict \/ a.short
    THEN << FALSE, FALSE >>
    ELSE IF ~TruthyStr(a.date) /\ a.text # << >>
              /\ \A i \in 1..Len(words) : CharIn(words[i][1], conf.tagsymbols)
    THEN << FALSE, FALSE >>
    ELSE << TRUE, FALSE >>

----------------------------------------------------------------------------
(* print_tags *)

\* list(set(xs)): the distinct elements of xs, in some order
RECURSIVE SetToSeq(_)
SetToSeq(S) ==
    IF S = {} THEN << >>
    ELSE LET x == CHOOSE x \in S : TRUE IN << x >> \o SetToSeq(S \ {x})

\* tags.count(tag)
Count(xs, x) == Cardinality({ i \in 1..Len(xs) : xs[i] = x })

\* (n1, t1) < (n2, t2), as Python compares tuples
PairLess(p, q) == p[1] < q[1] \/ (p[1] = q[1] /\ StrLess(p[2], q[2]))

\* sorted(S) for a set of (count, tag) pairs
RECURSIVE SortPairs(_)
SortPairs(S) ==
    IF S = {} THEN << >>
    ELSE LET m == CHOOSE p \in S : \A q \in S \ {p} : PairLess(p, q)
         IN << m >> \o SortPairs(S \ {m})

\* print_tags without the set() of line 113
RECURSIVE AllTagsNoSet(_)
AllTagsNoSet(entries) ==
    IF entries = << >> THEN << >>
    ELSE Head(entries).tags \o AllTagsNoSet(Tail(entries))

\* tags = [tag for entry in journal.entries for tag in set(entry.tags)]
RECURSIVE AllTags(_)
AllTags(entries) ==
    IF entries = << >> THEN << >>
    ELSE SetToSeq(Range(Head(entries).tags)) \o AllTags(Tail(entries))

\* tag_counts = set([(tags.count(tag), tag) for tag in tags])
TagCounts(entries) ==
    LET tags == AllTags(entries)
    IN  { << Count(tags, tags[i]), tags[i] >> : i \in 1..Len(tags) }

\* min(tag_counts)[0]
MinCount(tc) == (CHOOSE p \in tc : \A q \in tc \ {p} : PairLess(p, q))[1]

\* What print_tags computes and prints: the notice line (or "" for none) and
\* the lines "tag : n" in the order printed.
print_tags(entries) ==
    LET tc == TagCounts(entries) IN
    IF tc = {}
    THEN [ tag_counts |-> tc, notice |-> "[No tags found in journal.]",
           lines |-> << >> ]
    ELSE IF MinCount(tc) = 0
    THEN [ tag_counts |-> tc, notice |-> "[Removed tags that appear only once.]",
           lines |-> SortPairs({ p \in tc : p[1] > 1 }) ]
    ELSE [ tag_counts |-> tc, notice |-> "", lines |-> SortPairs(tc) ]

NoReport == [ tag_counts |-> {}, notice |-> "", lines |-> << >> ]

----------------------------------------------------------------------------
(* The configuration file and the file system *)

DefaultName == << "d", "e", "f", "a", "u", "l", "t" >>
WorkName == << "w", "o", "r", "k" >>
JournalNames == { DefaultName, WorkName }

DefaultPath == << "d" >>
WorkPath == << "w" >>
OtherPath == << "f" >>
Paths == { DefaultPath, WorkPath, OtherPath }

\* The passwords a user may type at a prompt.
Passwords == { << "p" >>, << "q" >> }

\* config['journals'][name] is either a str, the path of the journal file
\* (is_dict FALSE), or a dict of overrides with the key "journal" and maybe
\* the keys "encrypt" and "password" (None: the key is absent).
PathConf(path) ==
    [ is_dict |-> FALSE, journal |-> path, encrypt |-> None, password |-> None ]
DictConf(path, enc) ==
    [ is_dict |-> TRUE, journal |-> path, encrypt |-> enc, password |-> None ]

\* A file: absent, or holding a journal written in plain text or encrypted
\* under a key. A file that was only touched holds no entries in plain text.
NoFile == [ exists |-> FALSE, encrypted |-> FALSE, key |-> None, entries |-> << >> ]
EmptyFile == [ exists |-> TRUE, encrypted |-> FALSE, key |-> None, entries |-> << >> ]

\* The encrypt flag in force for a journal: its own override if it has one,
\* otherwise the global flag (lines 163-167 applied to a configuration).
EffectiveEncrypt(cfg, name) ==
    LET jc == cfg.journals[name] IN
    IF jc.is_dict /\ jc.encrypt # None THEN jc.encrypt[1] ELSE cfg.encrypt

JournalPath(cfg, name) == cfg.journals[name].journal

----------------------------------------------------------------------------
(* The Journal module (not part of jrnl.py) *)

\* hashlib.sha256(password).digest(): a key names the password it is made of
Hash(pw) == << "#" >> \o pw

\* Entry.tags: the words of the text that start with a tag symbol, each once
RECURSIVE Dedup(_)
Dedup(xs) ==
    IF xs = << >> THEN << >>
    ELSE LET rest == Dedup(SubSeq(xs, 1, Len(xs) - 1)) IN
         IF xs[Len(xs)] \in Range(rest) THEN rest ELSE Append(rest, xs[Len(xs)])

ParseTags(raw, tagsymbols) ==
    Dedup(SelectSeq(Split(raw), LAMBDA w : CharIn(w[1], tagsymbols)))

\* Journal.new_entry(raw, date): the entry it appends. Timestamps are not
\* modelled: an entry keeps its text, its tags and its star.
NewEntry(raw, date, tagsymbols) ==
    [ text |-> raw, starred |-> FALSE, tags |-> ParseTags(raw, tagsymbols) ]

\* Journal.filter(tags, strict): the entries kept (timestamps are not
\* modelled, so the date bounds keep every entry)
FilterEntries(entries, tags, strict) ==
    SelectSeq(entries, LAMBDA e :
        \/ tags = << >>
        \/ /\ strict
           /\ \A i \in 1..Len(tags) : tags[i] \in Range(e.tags)
        \/ /\ ~strict
           /\ \E i \in 1..Len(tags) : tags[i] \in Range(e.tags))

\* Journal.limit(n): the last n entries, all of them when n is falsy
LimitEntries(entries, n) ==
    IF TruthyInt(n) /\ n[1] > 0 /\ n[1] < Len(entries)
    THEN SubSeq(entries, Len(entries) - n[1] + 1, Len(entries))
    ELSE entries

\* Journal.write(filename): the file it leaves at filename, or at
\* config['journal'] when filename is falsy
WritePath(j, filename) == IF TruthyStr(filename) THEN filename[1] ELSE j.config.journal

WriteFile(j) ==
    IF j.config.encrypt
    THEN [ exists |-> TRUE, encrypted |-> TRUE, key |-> j.key, entries |-> j.entries ]
    ELSE [ exists |-> TRUE, encrypted |-> FALSE, key |-> None, entries |-> j.entries ]

JournalWrite(fs, j, filename) ==
    [ fs EXCEPT ![WritePath(j, filename)] = WriteFile(j) ]

NoJournal ==
    [ entries |-> << >>, key |-> None, key_prompt |-> "",
      config |-> [ journal |-> << >>, encrypt |-> FALSE, password |-> << >> ] ]

----------------------------------------------------------------------------
(* install.install_jrnl: the configurations a user may start from *)

InstalledConfigs ==
    { [ encrypt |-> e, password |-> pw, editor |-> ed, tagsymbols |-> << "@" >>,
        journals |-> [ n \in JournalNames |->
                         IF n = DefaultName THEN PathConf(DefaultPath) ELSE w ] ] :
      e \in BOOLEAN, pw \in { << >>, << "p" >> }, ed \in { << >>, << "v", "i" >> },
      w \in { PathConf(WorkPath), DictConf(WorkPath, None),
              DictConf(WorkPath, Some(TRUE)), DictConf(WorkPath, Some(FALSE)) } }

NoConfig ==
    [ encrypt |-> FALSE, password |-> << >>, editor |-> << >>, tagsymbols |-> << >>,
      journals |-> [ n \in JournalNames |-> PathConf(<< >>) ] ]

\* cli's `config` also holds the key "journal" once a journal is selected
WithJournal(cfg, path) ==
    [ encrypt |-> cfg.encrypt, password |-> cfg.password, editor |-> cfg.editor,
      tagsymbols |-> cfg.tagsymbols, journals |-> cfg.journals, journal |-> path ]

----------------------------------------------------------------------------
(* update_config *)

\* update_config that always updates the global keys
update_config_global(cfg, enc, scope) ==
    [ cfg EXCEPT !.encrypt = enc, !.password = << >> ]

update_config(cfg, enc, scope) ==
    IF scope # << >> /\ cfg.journals[scope].is_dict
    THEN [ cfg EXCEPT !.journals[scope].encrypt = Some(enc),
                      !.journals[scope].password = Some(<< >>) ]
    ELSE [ cfg EXCEPT !.encrypt = enc, !.password = << >> ]

----------------------------------------------------------------------------
(* The command lines and the typed texts the model runs cli() on *)

Day == Some(<< "d" >>)

CliOptions ==
    { DefaultArgs,
      [ DefaultArgs EXCEPT !.date = Day ],
      [ DefaultArgs EXCEPT !.star = TRUE ],
      [ DefaultArgs EXCEPT !.short = TRUE ],
      [ DefaultArgs EXCEPT !.limit = Some(1), !.strict = TRUE ],
      [ DefaultArgs EXCEPT !.tags = TRUE ],
      [ DefaultArgs EXCEPT !.json = TRUE ],
      [ DefaultArgs EXCEPT !.markdown = TRUE ],
      [ DefaultArgs EXCEPT !.delete_last = TRUE ],
      [ DefaultArgs EXCEPT !.encrypt = Given(None) ],
      [ DefaultArgs EXCEPT !.encrypt = Given(Some(OtherPath)) ],
      [ DefaultArgs EXCEPT !.decrypt = Given(None) ],
      [ DefaultArgs EXCEPT !.decrypt = Given(Some(OtherPath)) ],
      [ DefaultArgs EXCEPT !.tags = TRUE, !.delete_last = TRUE ],
      [ DefaultArgs EXCEPT !.json = TRUE, !.encrypt = Given(None) ],
      [ DefaultArgs EXCEPT !.short = TRUE, !.delete_last = TRUE ] }

CliTexts ==
    { << >>, << << "a" >> >>, << << "@", "a" >> >>, << << " " >> >>,
      << WorkName >>, << WorkName, << "a" >> >> }

CliArgs == { [ o EXCEPT !.text = t ] : o \in CliOptions, t \in CliTexts }

\* What the editor leaves in the temporary file, or what is typed at the
\* "[Compose Entry]" prompt.
TypedTexts == { << >>, << "\n" >>, << "a" >> }

----------------------------------------------------------------------------
(* cli *)

Idle ==
    /\ pc = "idle"
    /\ args = DefaultArgs
    /\ config = WithJournal(NoConfig, << >>)
    /\ original_config = NoConfig
    /\ journal_name = << >>
    /\ mode_compose = FALSE
    /\ mode_export = FALSE
    /\ journal = NoJournal
    /\ stdout = << >>
    /\ exit_code = 0
    /\ trace = << >>
    /\ report = NoReport

Init ==
    /\ PYCRYPTO \in BOOLEAN
    /\ disk_config \in InstalledConfigs
    /\ files = [ p \in Paths |-> NoFile ]
    /\ Idle
    /\ runs = 0
    /\ files_before = files
    /\ config_before = disk_config

persistent == << PYCRYPTO, disk_config, files, runs, files_before, config_before >>

\* lines 143-150: read the configuration file
LoadConfig ==
    /\ pc = "idle"
    /\ runs < MaxRuns
    /\ runs' = runs + 1
    /\ config' = WithJournal(disk_config, << >>)
    /\ original_config' = disk_config
    /\ files_before' = files
    /\ config_before' = disk_config
    /\ pc' = "check"
    /\ UNCHANGED << PYCRYPTO, disk_config, files, args, journal_name, mode_compose,
                    mode_export, journal, stdout, exit_code, trace, report >>

\* lines 152-154
CheckCrypto ==
    /\ pc = "check"
    /\ IF config.encrypt /\ ~PYCRYPTO
       THEN /\ stdout' = Append(stdout, "According to your jrnl_conf, your journal is encrypted, however PyCrypto was not found.")
            /\ exit_code' = -1
            /\ pc' = "exited"
       ELSE /\ pc' = "parse"
            /\ UNCHANGED << stdout, exit_code >>
    /\ UNCHANGED << persistent, args, config, original_config, journal_name,
                    mode_compose, mode_export, journal, trace, report >>

\* touch_journal(filename): the file system it leaves
touch_journal(fs, filename) ==
    IF ~fs[filename].exists THEN [ fs EXCEPT ![filename] = EmptyFile ] ELSE fs

\* lines 156-169: parse the arguments, select the journal, touch its file and
\* guess the mode. Line 161 compares with `is not`; the command lines of the
\* model never name the default journal, so identity and equality agree.
SelectJournal(a) ==
    /\ pc = "parse"
    /\ LET name == IF a.text # << >> /\ a.text[1] \in DOMAIN config.journals
                   THEN a.text[1] ELSE DefaultName
           text == IF name # DefaultName THEN Tail(a.text) ELSE a.text
           conf == config.journals[name]
           merged == IF conf.is_dict
                     THEN [ config EXCEPT
                              !.journal = conf.journal,
                              !.encrypt = IF conf.encrypt # None THEN conf.encrypt[1] ELSE @,
                              !.password = IF conf.password # None THEN conf.password[1] ELSE @ ]
                     ELSE [ config EXCEPT !.journal = conf.journal ]
           a2 == [ a EXCEPT !.text = text ]
           mode == guess_mode(a2, merged)
       IN  /\ journal_name' = name
           /\ args' = a2
           /\ config' = merged
           /\ files' = touch_journal(files, merged.journal)
           /\ stdout' = IF ~files[merged.journal].exists
                        THEN Append(stdout, "[Journal created]") ELSE stdout
           /\ trace' = IF ~files[merged.journal].exists
                       THEN Append(trace, "create") ELSE trace
           /\ mode_compose' = mode[1]
           /\ mode_export' = mode[2]
    /\ pc' = "open"
    /\ UNCHANGED << PYCRYPTO, disk_config, runs, files_before, config_before,
                    original_config, journal, exit_code, report >>

\* lines 174-178: Journal.Journal(**config) reads the journal file (the
\* journals of the model are files, never DayOne directories). With
\* encryption on it makes a key, from config['password'] or from a password
\* typed at the prompt, and decrypts; a wrong key is fatal.
OpenJournal(typed) ==
    /\ pc = "open"
    /\ trace' = Append(trace, "load")
    /\ LET f == files[config.journal]
           jconf == [ journal |-> config.journal, encrypt |-> config.encrypt,
                      password |-> config.password ]
           pw == IF config.password # << >> THEN config.password ELSE typed
       IN  IF ~config.encrypt
           THEN /\ journal' = [ entries |-> IF f.encrypted THEN << >> ELSE f.entries,
                                key |-> None, key_prompt |-> "", config |-> jconf ]
                /\ pc' = "input"
                /\ UNCHANGED << stdout, exit_code >>
           ELSE IF ~PYCRYPTO
           THEN /\ stdout' = Append(stdout, "Traceback: Crypto")
                /\ exit_code' = 1
                /\ pc' = "exited"
                /\ UNCHANGED journal
           ELSE IF (~f.encrypted /\ f.entries = << >>) \/ (f.encrypted /\ f.key = Some(Hash(pw)))
           THEN /\ journal' = [ entries |-> f.entries, key |-> Some(Hash(pw)),
                                key_prompt |-> IF config.password # << >> THEN ""
                                               ELSE "Password: ",
                                config |-> jconf ]
                /\ pc' = "input"
                /\ UNCHANGED << stdout, exit_code >>
           ELSE /\ stdout' = Append(stdout, "Wrong password")
                /\ exit_code' = 1
                /\ pc' = "exited"
                /\ UNCHANGED journal
    /\ UNCHANGED << persistent, args, config, original_config, journal_name,
                    mode_compose, mode_export, report >>

\* lines 181-189: with nothing to compose from, ask the editor or the prompt
ComposeInput(raw, saved) ==
    /\ pc = "input"
    /\ IF mode_compose /\ args.text = << >>
       THEN LET got == IF config.editor # << >> /\ ~saved THEN << >> ELSE raw IN
            /\ stdout' = IF config.editor # << >> /\ ~saved
                         THEN Append(stdout, "[Nothing saved to file]") ELSE stdout
            /\ IF got # << >>
               THEN /\ args' = [ args EXCEPT !.text = << got >> ]
                    /\ UNCHANGED mode_compose
               ELSE /\ mode_compose' = FALSE
                    /\ UNCHANGED args
       ELSE UNCHANGED << args, mode_compose, stdout >>
    /\ pc' = "dispatch"
    /\ UNCHANGED << persistent, config, original_config, journal_name, mode_export,
                    journal, exit_code, trace, report >>

\* lines 192-235: the branch of the if/elif chain that runs
Branch ==
    IF mode_compose THEN "compose"
    ELSE IF ~mode_export THEN "read"
    ELSE IF args.tags THEN "tags"
    ELSE IF args.json THEN "json"
    ELSE IF args.markdown THEN "markdown"
    ELSE IF (args.encrypt.given \/ args.decrypt.given) /\ ~PYCRYPTO THEN "nocrypto"
    ELSE IF args.encrypt.given THEN "encrypt"
    ELSE IF args.decrypt.given THEN "decrypt"
    ELSE IF args.delete_last THEN "delete_last"
    ELSE "none"

\* lines 192-197
Compose ==
    /\ pc = "dispatch"
    /\ Branch = "compose"
    /\ LET raw == Strip(Join(args.text))
           entry == [ NewEntry(raw, args.date, config.tagsymbols)
                        EXCEPT !.starred = args.star ]
           j == [ journal EXCEPT !.entries = Append(@, entry) ]
       IN  /\ journal' = j
           /\ files' = JournalWrite(files, j, None)
    /\ stdout' = Append(stdout, "[Entry added]")
    /\ trace' = trace \o << "new_entry", "write" >>
    /\ pc' = "done"
    /\ UNCHANGED << PYCRYPTO, disk_config, runs, files_before, config_before, args,
                    config, original_config, journal_name, mode_compose, mode_export,
                    exit_code, report >>

\* reading mode that writes the narrowed journal back
ReadAndWrite ==
    /\ pc = "dispatch"
    /\ Branch = "read"
    /\ LET j == [ journal EXCEPT !.entries =
                     LimitEntries(FilterEntries(@, args.text, args.strict), args.limit) ]
       IN  /\ journal' = j
           /\ files' = JournalWrite(files, j, None)
    /\ stdout' = Append(stdout, "print(journal)")
    /\ trace' = Append(trace, "write")
    /\ pc' = "done"
    /\ UNCHANGED << PYCRYPTO, disk_config, runs, files_before, config_before, args,
                    config, original_config, journal_name, mode_compose, mode_export,
                    exit_code, report >>

\* lines 200-206
Read ==
    /\ pc = "dispatch"
    /\ Branch = "read"
    /\ journal' = [ journal EXCEPT !.entries =
                      LimitEntries(FilterEntries(@, args.text, args.strict), args.limit) ]
    /\ stdout' = Append(stdout, "print(journal)")
    /\ pc' = "done"
    /\ UNCHANGED << persistent, args, config, original_config, journal_name,
                    mode_compose, mode_export, exit_code, trace, report >>

\* lines 209-210
Tags ==
    /\ pc = "dispatch"
    /\ Branch = "tags"
    /\ report' = print_tags(journal.entries)
    /\ stdout' = Append(stdout, "print_tags(journal)")
    /\ pc' = "done"
    /\ UNCHANGED << persistent, args, config, original_config, journal_name,
                    mode_compose, mode_export, journal, exit_code, trace >>

\* lines 212-216
Export ==
    /\ pc = "dispatch"
    /\ Branch \in { "json", "markdown" }
    /\ stdout' = Append(stdout, IF Branch = "json" THEN "exporters.to_json(journal)"
                                ELSE "exporters.to_md(journal)")
    /\ pc' = "done"
    /\ UNCHANGED << persistent, args, config, original_config, journal_name,
                    mode_compose, mode_export, journal, exit_code, trace, report >>

\* lines 218-219
CryptoMissing ==
    /\ pc = "dispatch"
    /\ Branch = "nocrypto"
    /\ stdout' = Append(stdout, "PyCrypto not found.")
    /\ pc' = "done"
    /\ UNCHANGED << persistent, args, config, original_config, journal_name,
                    mode_compose, mode_export, journal, exit_code, trace, report >>

\* Journal.make_key(prompt): the key comes from config['password'], or from a
\* password typed at the prompt when that is empty
make_key(j, prompt, typed) ==
    [ j EXCEPT !.key = Some(Hash(IF j.config.password # << >>
                                 THEN j.config.password ELSE typed)),
               !.key_prompt = IF j.config.password # << >> THEN "" ELSE prompt ]

\* encrypt without line 94
EncryptKeepPassword ==
    /\ pc = "dispatch"
    /\ Branch = "encrypt"
    /\ pc' = "encrypt_make_key"
    /\ UNCHANGED << persistent, args, config, original_config, journal_name,
                    mode_compose, mode_export, journal, stdout, exit_code, trace,
                    report >>

\* encrypt, line 94
EncryptClearPassword ==
    /\ pc = "dispatch"
    /\ Branch = "encrypt"
    /\ journal' = [ journal EXCEPT !.config.password = << >> ]
    /\ pc' = "encrypt_make_key"
    /\ UNCHANGED << persistent, args, config, original_config, journal_name,
                    mode_compose, mode_export, stdout, exit_code, trace, report >>

\* encrypt, line 95
EncryptMakeKey(typed) ==
    /\ pc = "encrypt_make_key"
    /\ journal' = make_key(journal, "Enter new password:", typed)
    /\ pc' = "encrypt_set_flag"
    /\ UNCHANGED << persistent, args, config, original_config, journal_name,
                    mode_compose, mode_export, stdout, exit_code, trace, report >>

\* encrypt, line 96
EncryptSetFlag ==
    /\ pc = "encrypt_set_flag"
    /\ journal' = [ journal EXCEPT !.config.encrypt = TRUE ]
    /\ pc' = "encrypt_write"
    /\ UNCHANGED << persistent, args, config, original_config, journal_name,
                    mode_compose, mode_export, stdout, exit_code, trace, report >>

\* encrypt, lines 97-98
EncryptWrite ==
    /\ pc = "encrypt_write"
    /\ files' = JournalWrite(files, journal, args.encrypt.value)
    /\ stdout' = Append(stdout, "Journal encrypted")
    /\ trace' = Append(trace, "write")
    /\ pc' = "encrypt_update_config"
    /\ UNCHANGED << PYCRYPTO, disk_config, runs, files_before, config_before, args,
                    config, original_config, journal_name, mode_compose, mode_export,
                    journal, exit_code, report >>

\* lines 224-226; install.save_config writes original_config to CONFIG_PATH
EncryptUpdateConfig ==
    /\ pc = "encrypt_update_config"
    /\ IF ~TruthyStr(args.encrypt.value)
       THEN /\ original_config' = update_config(original_config, TRUE, journal_name)
            /\ disk_config' = original_config'
            /\ trace' = Append(trace, "save_config")
       ELSE UNCHANGED << original_config, disk_config, trace >>
    /\ pc' = "done"
    /\ UNCHANGED << PYCRYPTO, files, runs, files_before, config_before, args, config,
                    journal_name, mode_compose, mode_export, journal, stdout,
                    exit_code, report >>

\* lines 228-229 and decrypt, lines 102-105
Decrypt ==
    /\ pc = "dispatch"
    /\ Branch = "decrypt"
    /\ LET j == [ journal EXCEPT !.config.encrypt = FALSE, !.config.password = << >> ]
       IN  /\ journal' = j
           /\ files' = JournalWrite(files, j, args.decrypt.value)
    /\ stdout' = Append(stdout, "Journal decrypted")
    /\ trace' = Append(trace, "write")
    /\ pc' = "decrypt_update_config"
    /\ UNCHANGED << PYCRYPTO, disk_config, runs, files_before, config_before, args,
                    config, original_config, journal_name, mode_compose, mode_export,
                    exit_code, report >>

\* lines 231-233
DecryptUpdateConfig ==
    /\ pc = "decrypt_update_config"
    /\ IF ~TruthyStr(args.decrypt.value)
       THEN /\ original_config' = update_config(original_config, FALSE, journal_name)
            /\ disk_config' = original_config'
            /\ trace' = Append(trace, "save_config")
       ELSE UNCHANGED << original_config, disk_config, trace >>
    /\ pc' = "done"
    /\ UNCHANGED << PYCRYPTO, files, runs, files_before, config_before, args, config,
                    journal_name, mode_compose, mode_export, journal, stdout,
                    exit_code, report >>

\* delete-last that skips the pop on an empty journal and goes on to write
DeleteLastQuiet ==
    /\ pc = "dispatch"
    /\ Branch = "delete_last"
    /\ LET j == [ journal EXCEPT !.entries = SubSeq(@, 1, Len(@) - 1) ] IN
       /\ journal' = j
       /\ files' = JournalWrite(files, j, None)
    /\ stdout' = stdout \o << "[Deleted Entry:]", "print(last_entry)" >>
    /\ trace' = Append(trace, "write")
    /\ pc' = "done"
    /\ UNCHANGED << PYCRYPTO, disk_config, runs, files_before, config_before, args,
                    config, original_config, journal_name, mode_compose, mode_export,
                    exit_code, report >>

\* lines 235-239; list.pop() on an empty list raises IndexError, which nothing
\* catches
DeleteLast ==
    /\ pc = "dispatch"
    /\ Branch = "delete_last"
    /\ IF journal.entries = << >>
       THEN /\ stdout' = Append(stdout, "Traceback: IndexError")
            /\ exit_code' = 1
            /\ pc' = "exited"
            /\ UNCHANGED << journal, files, trace >>
       ELSE LET j == [ journal EXCEPT !.entries = SubSeq(@, 1, Len(@) - 1) ] IN
            /\ journal' = j
            /\ files' = JournalWrite(files, j, None)
            /\ stdout' = stdout \o << "[Deleted Entry:]", "print(last_entry)" >>
            /\ trace' = Append(trace, "write")
            /\ pc' = "done"
            /\ UNCHANGED exit_code
    /\ UNCHANGED << PYCRYPTO, disk_config, runs, files_before, config_before, args,
                    config, original_config, journal_name, mode_compose, mode_export,
                    report >>

\* What the user is asked for: a password when the journal is opened
\* encrypted and the configuration holds none, a text when there is nothing
\* to compose from, and whether the editor saved its file.
OpenPrompt ==
    IF config.encrypt /\ PYCRYPTO /\ config.password = << >> THEN Passwords
    ELSE { << >> }

ComposePrompt == IF mode_compose /\ args.text = << >> THEN TypedTexts ELSE { << >> }

EditorSaved ==
    IF mode_compose /\ args.text = << >> /\ config.editor # << >> THEN BOOLEAN
    ELSE { TRUE }

\* the process ends; the next invocation starts from the files alone
Finish ==
    /\ pc \in { "done", "exited" }
    /\ pc' = "idle"
    /\ args' = DefaultArgs
    /\ config' = WithJournal(NoConfig, << >>)
    /\ original_config' = NoConfig
    /\ journal_name' = << >>
    /\ mode_compose' = FALSE
    /\ mode_export' = FALSE
    /\ journal' = NoJournal
    /\ stdout' = << >>
    /\ exit_code' = 0
    /\ trace' = << >>
    /\ report' = NoReport
    /\ files_before' = files
    /\ config_before' = disk_config
    /\ UNCHANGED << PYCRYPTO, disk_config, files, runs >>

Next ==
    \/ LoadConfig
    \/ CheckCrypto
    \/ \E a \in CliArgs : SelectJournal(a)
    \/ \E typed \in OpenPrompt : OpenJournal(typed)
    \/ \E raw \in ComposePrompt, saved \in EditorSaved : ComposeInput(raw, saved)
    \/ Compose
    \/ Read
    \/ Tags
    \/ Export
    \/ CryptoMissing
    \/ EncryptClearPassword
    \/ \E typed \in Passwords : EncryptMakeKey(typed)
    \/ EncryptSetFlag
    \/ EncryptWrite
    \/ EncryptUpdateConfig
    \/ Decrypt
    \/ DecryptUpdateConfig
    \/ DeleteLast
    \/ Finish

Spec == Init /\ [][Next]_vars

----------------------------------------------------------------------------
(* guess_mode on its own: every command line within the bounds *)

ModeChars == { "@", "a", " " }

OptStrs == { None, Some(<< >>), Some(<< "d" >>) }
OptInts == { None, Some(0), Some(1) }
OptFiles == { NotGiven, Given(None), Given(Some(OtherPath)) }

B2N(b) == IF b THEN 1 ELSE 0

\* how many options of the command line are given
NumSet(o) ==
    B2N(o.date # None) + B2N(o.start_date # None) + B2N(o.end_date # None)
    + B2N(o.limit # None) + B2N(o.strict) + B2N(o.short) + B2N(o.tags)
    + B2N(o.json) + B2N(o.markdown) + B2N(o.encrypt.given) + B2N(o.decrypt.given)
    + B2N(o.delete_last)

ModeOptions ==
    { o \in [ date : OptStrs, star : { FALSE }, text : { << >> },
              start_date : OptStrs, end_date : OptStrs, strict : BOOLEAN,
              limit : OptInts, short : BOOLEAN, tags : BOOLEAN, json : BOOLEAN,
              markdown : BOOLEAN, encrypt : OptFiles, decrypt : OptFiles,
              delete_last : BOOLEAN ] : NumSet(o) <= MaxSetFlags }

\* s cut into arguments at the positions in cuts, which hold spaces
RECURSIVE CutAt(_, _, _, _)
CutAt(s, cuts, i, cur) ==
    IF i > Len(s) THEN << cur >>
    ELSE IF i \in cuts THEN << cur >> \o CutAt(s, cuts, i + 1, << >>)
    ELSE CutAt(s, cuts, i + 1, Append(cur, s[i]))

\* the argument lists whose " ".join() has at most MaxTextLen characters
ModeTexts ==
    { << >> } \cup
    UNION { { CutAt(s, cuts, 1, << >>) :
                cuts \in SUBSET { i \in 1..Len(s) : s[i] = " " } } :
            s \in StrsUpTo(ModeChars, MaxTextLen) }

InitMode ==
    /\ PYCRYPTO = TRUE
    /\ disk_config = CHOOSE c \in InstalledConfigs : TRUE
    /\ files = [ p \in Paths |-> NoFile ]
    /\ pc = "guess_mode"
    /\ args \in { [ o EXCEPT !.text = t ] : o \in ModeOptions, t \in ModeTexts }
    /\ config = WithJournal(disk_config, DefaultPath)
    /\ original_config = disk_config
    /\ journal_name = DefaultName
    /\ mode_compose = FALSE
    /\ mode_export = FALSE
    /\ journal = NoJournal
    /\ stdout = << >>
    /\ exit_code = 0
    /\ trace = << >>
    /\ report = NoReport
    /\ runs = 0
    /\ files_before = files
    /\ config_before = disk_config

\* line 169 alone
GuessMode ==
    /\ pc = "guess_mode"
    /\ mode_compose' = guess_mode(args, config)[1]
    /\ mode_export' = guess_mode(args, config)[2]
    /\ pc' = "guessed"
    /\ UNCHANGED << persistent, args, config, original_config, journal_name, journal,
                    stdout, exit_code, trace, report >>

NextMode == GuessMode

SpecMode == InitMode /\ [][NextMode]_vars

----------------------------------------------------------------------------
(* print_tags on its own: every journal within the bounds *)

GymTag == << "@", "g" >>
WorkTag == << "@", "w" >>
TagUniverse == { GymTag, WorkTag }

TagEntries ==
    { [ text |-> Join(ts), starred |-> FALSE, tags |-> ts ] :
        ts \in ListsUpTo(TagUniverse, MaxEntryTags) }

InitTags ==
    /\ PYCRYPTO = TRUE
    /\ disk_config = CHOOSE c \in InstalledConfigs : TRUE
    /\ files = [ p \in Paths |-> NoFile ]
    /\ pc = "print_tags"
    /\ args = [ DefaultArgs EXCEPT !.tags = TRUE ]
    /\ config = WithJournal(disk_config, DefaultPath)
    /\ original_config = disk_config
    /\ journal_name = DefaultName
    /\ mode_compose = FALSE
    /\ mode_export = TRUE
    /\ journal \in { [ NoJournal EXCEPT !.entries = es ] :
                       es \in ListsUpTo(TagEntries, MaxTagEntries) }
    /\ stdout = << >>
    /\ exit_code = 0
    /\ trace = << >>
    /\ report = NoReport
    /\ runs = 0
    /\ files_before = files
    /\ config_before = disk_config

\* line 210 alone
PrintTags ==
    /\ pc = "print_tags"
    /\ report' = print_tags(journal.entries)
    /\ pc' = "printed"
    /\ UNCHANGED << persistent, args, config, original_config, journal_name,
                    mode_compose, mode_export, journal, stdout, exit_code, trace >>

NextTags == PrintTags

SpecTags == InitTags /\ [][NextTags]_vars

----------------------------------------------------------------------------
(* Properties of print_tags, under SpecTags *)

\* the entries of the journal whose tag collection holds the tag at least once
EntriesWith(tag) ==
    { i \in 1..Len(journal.entries) :
        \E k \in 1..Len(journal.entries[i].tags) : journal.entries[i].tags[k] = tag }

Occurring == { tag \in TagUniverse : EntriesWith(tag) # {} }

\* C2: when the smallest tag count is 1 and some tag has a larger count,
\* print_tags drops the tags counted once and prints the notice
\* '[Removed tags that appear only once.]'.
C2_Suppression ==
    ( /\ pc = "printed"
      /\ \E tag \in Occurring : Cardinality(EntriesWith(tag)) = 1
      /\ \E tag \in Occurring : Cardinality(EntriesWith(tag)) > 1 )
    => /\ report.notice = "[Removed tags that appear only once.]"
       /\ \A i \in 1..Len(report.lines) : report.lines[i][1] > 1

\* C3: the count print_tags computes for a tag is the number of entries whose
\* tag collection holds the tag, a tag repeated inside one entry counting
\* once, and the report shows each tag at most once.
C3_CountsEntries ==
    pc = "printed" =>
      /\ \A p \in report.tag_counts : p[1] = Cardinality(EntriesWith(p[2]))
      /\ \A tag \in Occurring : \E p \in report.tag_counts : p[2] = tag
      /\ \A i \in 1..Len(report.lines) :
           /\ report.lines[i][1] = Cardinality(EntriesWith(report.lines[i][2]))
           /\ \A k \in 1..Len(report.lines) : k # i => report.lines[k][2] # report.lines[i][2]

\* a journal where an entry repeats a tag that another entry uses too
C3_Witness ==
    /\ pc = "printed"
    /\ \E i \in 1..Len(journal.entries) :
         /\ journal.entries[i].tags = << WorkTag, WorkTag >>
         /\ \E k \in 1..Len(journal.entries) : k # i /\ journal.entries[k].tags = << WorkTag >>
    /\ << 2, WorkTag >> \in report.tag_counts
    /\ Len(report.lines) = 1

----------------------------------------------------------------------------
(* Properties of guess_mode, under SpecMode *)

ModeOf(compose, export) ==
    IF export THEN "export" ELSE IF compose THEN "compose" ELSE "read"

ExportOption(a) ==
    a.json \/ a.markdown \/ a.tags \/ a.delete_last \/ a.encrypt.given \/ a.decrypt.given

NonZero(n) == n # None /\ n[1] # 0

\* a character that starts a word of the text
WordStart(s, i) == s[i] \notin Whitespace /\ (i = 1 \/ s[i - 1] \in Whitespace)

\* every word of the text arguments starts with a tag symbol
OnlyTags(text, symbols) ==
    \A k \in 1..Len(text) : \A i \in 1..Len(text[k]) :
        WordStart(text[k], i) => text[k][i] \in Range(symbols)

NonEmpty(o) == o # None /\ Len(o[1]) > 0

----------------------------------------------------------------------------
(* Properties of cli, under Spec *)

Printed(msg) == msg \in Range(stdout)
Called(what) == what \in Range(trace)

\* an invocation that has selected its journal
Selected == journal_name \in JournalNames

SameJournals(fs1, fs2) ==
    \A p \in Paths : fs1[p].entries = fs2[p].entries /\ fs1[p].encrypted = fs2[p].encrypted

\* C1: without the cryptographic library, an invocation that asks for
\* --encrypt or --decrypt, or whose journal is configured as encrypted,
\* creates no journal file, loads no journal and writes no file.
C1_FailsBeforeFiles ==
    ( /\ ~PYCRYPTO
      /\ Selected
      /\ \/ args.encrypt.given
         \/ args.decrypt.given
         \/ EffectiveEncrypt(config_before, journal_name) )
    => /\ trace = << >>
       /\ files = files_before
       /\ disk_config = config_before

DecryptDone == pc = "done" /\ Printed("Journal decrypted")

\* C4, as claimed: after a successful decrypt, with or without a FILENAME, the
\* persisted encrypt flag of the journal is false.
C4_AsClaimed ==
    DecryptDone => ~EffectiveEncrypt(disk_config, journal_name)

\* C4, amended: after a successful decrypt in place the persisted encrypt flag
\* of the journal is false; after a decrypt into a FILENAME the persisted
\* configuration is what it was.
C4_InPlace ==
    DecryptDone =>
      IF ~TruthyStr(args.decrypt.value)
      THEN ~EffectiveEncrypt(disk_config, journal_name)
      ELSE disk_config = config_before

\* an encrypted journal with entries, decrypted in place
C4_Witness ==
    /\ DecryptDone
    /\ args.decrypt.value = None
    /\ EffectiveEncrypt(config_before, journal_name)
    /\ files_before[config.journal].encrypted
    /\ files_before[config.journal].entries # << >>
    /\ ~files[config.journal].encrypted
    /\ ~EffectiveEncrypt(disk_config, journal_name)

\* C5: in encrypt() the password is emptied, then a new password is asked
\* for, then the flag is set, and only then write() runs: write() is reached
\* with an empty config password, a key from the "Enter new password:" prompt
\* and the flag set, and has not run before.
C5_EncryptOrder ==
    /\ pc \in { "encrypt_make_key", "encrypt_set_flag", "encrypt_write" }
         => journal.config.password = << >> /\ ~Called("write")
    /\ pc \in { "encrypt_set_flag", "encrypt_write" }
         => journal.key_prompt = "Enter new password:"
    /\ pc = "encrypt_write" => journal.config.encrypt
    /\ Printed("Journal encrypted")
         => LET f == files[WritePath(journal, args.encrypt.value)] IN
            f.encrypted /\ f.key = journal.key /\ journal.key_prompt = "Enter new password:"

\* write() is about to run for a plain journal whose configuration held a
\* password
C5_Witness ==
    /\ pc = "encrypt_write"
    /\ config.password # << >>
    /\ ~config.encrypt
    /\ journal.config.password = << >>
    /\ journal.config.encrypt

\* C6: no entry is made from a text that is empty once trimmed: new_entry is
\* only called with a text that has a word in it.
C6_NoEmptyEntry ==
    Called("new_entry") => Strip(Join(args.text)) # << >>

\* the delete-last branch ran on the journal this invocation opened
DeleteRan ==
    /\ pc \in { "done", "exited" }
    /\ Selected
    /\ Branch = "delete_last"
    /\ Called("load")
    /\ ~Printed("Wrong password")
    /\ ~Printed("Traceback: Crypto")

\* the entries the invocation found in the journal file
Loaded ==
    LET f == files_before[config.journal] IN
    IF f.encrypted /\ ~config.encrypt THEN << >> ELSE f.entries

\* C7: delete-last on a store of one entry writes an empty store; on an empty
\* store it fails, write() is not called and the files are unchanged.
C7_DeleteLast ==
    DeleteRan =>
      IF Loaded = << >>
      THEN /\ pc = "exited" /\ exit_code # 0
           /\ ~Called("write")
           /\ SameJournals(files, files_before)
      ELSE /\ pc = "done"
           /\ Count(trace, "write") = 1
           /\ files[config.journal].entries = SubSeq(Loaded, 1, Len(Loaded) - 1)
           /\ Len(Loaded) = 1 => files[config.journal].entries = << >>

\* delete-last emptied a store of one entry
C7_Witness ==
    /\ DeleteRan
    /\ Len(Loaded) = 1
    /\ pc = "done"
    /\ files[config.journal].entries = << >>

\* delete-last failed on an empty store
C7_WitnessEmpty ==
    /\ DeleteRan
    /\ Loaded = << >>
    /\ pc = "exited"

\* C8: an invocation calls write() at most once, and only in the compose,
\* encrypt, decrypt and delete-last branches; the read, tags, JSON and
\* Markdown branches leave every stored journal as it was.
C8_WriteOnce ==
    /\ Count(trace, "write") <= 1
    /\ Called("write") =>
         Selected /\ Branch \in { "compose", "encrypt", "decrypt", "delete_last" }
    /\ ( pc = "done" /\ Selected /\ Branch \in { "read", "tags", "json", "markdown" } )
         => ~Called("write") /\ SameJournals(files, files_before)

\* a read that narrowed the journal in memory and left the file alone
C8_Witness ==
    /\ pc = "done"
    /\ Selected
    /\ Branch = "read"
    /\ journal.entries # files[config.journal].entries
    /\ files[config.journal].entries = files_before[config.journal].entries

\* C10: between invocations the persisted encrypt flag in force for each
\* journal agrees with how its file was last written.
C10_FlagsAgree ==
    pc = "idle" =>
      \A n \in JournalNames :
        LET f == files[JournalPath(disk_config, n)] IN
        (f.encrypted \/ f.entries # << >>)
          => f.encrypted = EffectiveEncrypt(disk_config, n)

====
